---- MODULE Spec2Model ----
(***************************************************************************)
(* Interval arithmetic and set operations of package interval              *)
(* (interval.go, arith.go).  Endpoints are float64 values; they are        *)
(* modelled exactly as signed rationals s*n/d extended with the IEEE 754   *)
(* special values: d = 0, n = 1 is an infinity, n = 0, d = 1 is a signed   *)
(* zero and n = 0, d = 0 is NaN.  Rounding is not modelled (every          *)
(* operation is exact); signed zeros, infinities and NaN behave as in Go.  *)
(***************************************************************************)
EXTENDS Integers, FiniteSets, Sequences, TLC

\* Largest magnitude of an integer endpoint drawn as input by Init.
MaxNum == 2
\* Largest endpoint drawn as input by InitRoundTrip.
RTMax == 4

\* The longest sequence of calls that feed on earlier results.
MaxChain == 3

----------------------------------------------------------------------------
(* float64 values and the operators Go applies to them *)

RECURSIVE Gcd(_, _)
Gcd(p, q) == IF q = 0 THEN p ELSE Gcd(q, p % q)

Abs(k) == IF k < 0 THEN -k ELSE k

NaN == [s |-> 1, n |-> 0, d |-> 0]
inf == [s |-> 1, n |-> 1, d |-> 0]
neginf == [s |-> -1, n |-> 1, d |-> 0]
PosZero == [s |-> 1, n |-> 0, d |-> 1]
NegZero == [s |-> -1, n |-> 0, d |-> 1]

\* The float64 with sign s and magnitude n/d, in lowest terms.
Norm(s, n, d) ==
  IF n = 0 /\ d = 0 THEN NaN
  ELSE LET g == Gcd(n, d) IN [s |-> s, n |-> n \div g, d |-> d \div g]

\* The float64 of the integer k, and of the fraction k/q (q > 0).
Flt(k) == [s |-> IF k < 0 THEN -1 ELSE 1, n |-> Abs(k), d |-> 1]
Frac(k, q) == Norm(IF k < 0 THEN -1 ELSE 1, Abs(k), q)

IsNaN(v) == v.n = 0 /\ v.d = 0
IsInf(v) == v.n = 1 /\ v.d = 0

\* Comparisons: false whenever an operand is NaN; -0 == +0.
FLt(v, w) ==
  /\ ~IsNaN(v)
  /\ ~IsNaN(w)
  /\ IF v.d = 0 /\ w.d = 0 THEN v.s < w.s
     ELSE v.s * v.n * w.d < w.s * w.n * v.d
FGt(v, w) == FLt(w, v)
FEq(v, w) == ~IsNaN(v) /\ ~IsNaN(w) /\ ~FLt(v, w) /\ ~FLt(w, v)

\* Unary minus flips the sign bit (so -(+0) is -0).
FNeg(v) == IF IsNaN(v) THEN NaN ELSE [v EXCEPT !.s = -v.s]

\* x * y: inf * 0 is NaN, the sign is the product of the signs.
FMul(v, w) == Norm(v.s * w.s, v.n * w.n, v.d * w.d)

\* x / y: 0/0 and inf/inf are NaN, x/0 is an infinity whose sign is the
\* product of the signs (so 1/(-0) is -inf), x/inf is a zero.
FDiv(v, w) == Norm(v.s * w.s, v.n * w.d, v.d * w.n)

\* x + y: inf + (-inf) is NaN; an exact zero sum is +0 unless both are -0.
FAdd(v, w) ==
  IF IsNaN(v) \/ IsNaN(w) THEN NaN
  ELSE IF v.d = 0 /\ w.d = 0 THEN (IF v.s = w.s THEN v ELSE NaN)
  ELSE IF v.d = 0 THEN v
  ELSE IF w.d = 0 THEN w
  ELSE LET sn == v.s * v.n * w.d + w.s * w.n * v.d
       IN IF sn = 0
          THEN (IF v.n = 0 /\ w.n = 0 /\ v.s = -1 /\ w.s = -1
                THEN NegZero ELSE PosZero)
          ELSE Norm(IF sn < 0 THEN -1 ELSE 1, Abs(sn), v.d * w.d)

\* math.Max and math.Min, with their special cases for +-Inf, NaN and +-0.
FMax(v, w) ==
  IF (IsInf(v) /\ v.s = 1) \/ (IsInf(w) /\ w.s = 1) THEN inf
  ELSE IF IsNaN(v) \/ IsNaN(w) THEN NaN
  ELSE IF v.n = 0 /\ w.n = 0 THEN (IF v.s = -1 THEN w ELSE v)
  ELSE IF FGt(v, w) THEN v ELSE w
FMin(v, w) ==
  IF (IsInf(v) /\ v.s = -1) \/ (IsInf(w) /\ w.s = -1) THEN neginf
  ELSE IF IsNaN(v) \/ IsNaN(w) THEN NaN
  ELSE IF v.n = 0 /\ w.n = 0 THEN (IF v.s = -1 THEN v ELSE w)
  ELSE IF FLt(v, w) THEN v ELSE w

----------------------------------------------------------------------------
(* Ends: a two-bit set, bit 0 = left endpoint closed, bit 1 = right *)

Open == 0
LeftClosed == 1
RightClosed == 2
Closed == 3

leftEndMask == 1
rightEndMask == 2

\* Go's &, | and ^ on values of 0..3.
BitAnd(e, f) == (e % 2) * (f % 2) + 2 * ((e \div 2) * (f \div 2))
BitOr(e, f) ==
  (IF (e % 2) + (f % 2) > 0 THEN 1 ELSE 0)
  + 2 * (IF (e \div 2) + (f \div 2) > 0 THEN 1 ELSE 0)
BitXor(e, f) ==
  (((e % 2) + (f % 2)) % 2) + 2 * (((e \div 2) + (f \div 2)) % 2)

\* Mutant of flip: the two bits are not swapped.
flipNothing(e) == e
\* e&leftEndMask<<1 + e&rightEndMask>>1
flip(e) == (BitAnd(e, leftEndMask) * 2) + (BitAnd(e, rightEndMask) \div 2)

----------------------------------------------------------------------------
(* Interval: the struct {a, b float64; ends Ends} *)

Interval(a, b, ends) == [a |-> a, b |-> b, ends |-> ends]

empty == Interval(PosZero, PosZero, Open)
\* Mutant of zero: the empty interval (0, 0) instead of [0, 0].
zeroOpen == Interval(PosZero, PosZero, Open)
zero == Interval(PosZero, PosZero, Closed)

Left(in) == in.a
Right(in) == in.b
Ends(in) == in.ends

LeftIsClosed(in) == BitAnd(in.ends, leftEndMask) # 0
RightIsClosed(in) == BitAnd(in.ends, rightEndMask) # 0

IsEmpty(in) == FGt(in.a, in.b) \/ (FEq(in.a, in.b) /\ in.ends # Closed)
IsMixed(in) == FLt(in.a, PosZero) /\ FLt(PosZero, in.b)
IsSingle(in) == FEq(in.a, in.b) /\ in.ends = Closed
\* Mutant of IsZero: the test in.a == 0 is missing.
IsZeroAnySingle(in) == IsSingle(in)
IsZero(in) == IsSingle(in) /\ FEq(in.a, PosZero)

Contains(in, v) ==
  /\ FLt(in.a, v) \/ (FEq(in.a, v) /\ LeftIsClosed(in))
  /\ FGt(in.b, v) \/ (FEq(in.b, v) /\ RightIsClosed(in))

Equal(p, q) ==
  IF IsEmpty(p) THEN IsEmpty(q)
  ELSE FEq(p.a, q.a) /\ FEq(p.b, q.b) /\ p.ends = q.ends

\* Mutant of New: the closed infinite bound is tested before emptiness.
NewClosedInfFirst(v, w, ends) ==
  IF IsNaN(v) \/ IsNaN(w) THEN [iv |-> empty, err |-> "ErrNaN"]
  ELSE LET in == Interval(v, w, ends)
       IN IF \/ FEq(in.a, neginf) /\ LeftIsClosed(in)
             \/ FEq(in.b, inf) /\ RightIsClosed(in)
          THEN [iv |-> empty, err |-> "ErrClosedInf"]
          ELSE IF IsEmpty(in) THEN [iv |-> empty, err |-> "ErrEmpty"]
               ELSE [iv |-> in, err |-> "nil"]

\* New: the interval and the error ("nil" when there is none).
New(v, w, ends) ==
  IF IsNaN(v) \/ IsNaN(w) THEN [iv |-> empty, err |-> "ErrNaN"]
  ELSE LET in == Interval(v, w, ends)
       IN IF IsEmpty(in) THEN [iv |-> empty, err |-> "ErrEmpty"]
          ELSE IF \/ FEq(in.a, neginf) /\ LeftIsClosed(in)
                  \/ FEq(in.b, inf) /\ RightIsClosed(in)
               THEN [iv |-> empty, err |-> "ErrClosedInf"]
               ELSE [iv |-> in, err |-> "nil"]

----------------------------------------------------------------------------
(* Set operations *)

\* The shared test of Intersection and Union: neither interval contains an
\* endpoint of the other.
Disjoint(p, q) ==
  /\ ~Contains(p, q.a)
  /\ ~Contains(p, q.b)
  /\ ~Contains(q, p.a)
  /\ ~Contains(q, p.b)

\* Mutant of IntersectionEnds: at a tie the ends are OR-ed, as in Union.
IntersectionEndsOrTie(p, q) ==
  LET l == CASE FLt(p.a, q.a) -> BitAnd(q.ends, leftEndMask)
             [] FEq(p.a, q.a) -> BitAnd(BitOr(p.ends, q.ends), leftEndMask)
             [] FGt(p.a, q.a) -> BitAnd(p.ends, leftEndMask)
             [] OTHER -> 0
      r == CASE FLt(p.b, q.b) -> BitAnd(p.ends, rightEndMask)
             [] FEq(p.b, q.b) -> BitAnd(BitOr(p.ends, q.ends), rightEndMask)
             [] FGt(p.b, q.b) -> BitAnd(q.ends, rightEndMask)
             [] OTHER -> 0
  IN BitXor(BitXor(0, l), r)

\* The two switch statements of Intersection, XOR-ed into e (initially 0).
IntersectionEnds(p, q) ==
  LET l == CASE FLt(p.a, q.a) -> BitAnd(q.ends, leftEndMask)
             [] FEq(p.a, q.a) -> BitAnd(BitAnd(p.ends, q.ends), leftEndMask)
             [] FGt(p.a, q.a) -> BitAnd(p.ends, leftEndMask)
             [] OTHER -> 0
      r == CASE FLt(p.b, q.b) -> BitAnd(p.ends, rightEndMask)
             [] FEq(p.b, q.b) -> BitAnd(BitAnd(p.ends, q.ends), rightEndMask)
             [] FGt(p.b, q.b) -> BitAnd(q.ends, rightEndMask)
             [] OTHER -> 0
  IN BitXor(BitXor(0, l), r)

\* Mutant of Intersection: the test for disjoint operands is missing.
IntersectionNoDisjointTest(p, q) ==
  IF IsEmpty(p) \/ IsEmpty(q) THEN empty
  ELSE IF Equal(p, q) THEN Interval(p.a, p.b, p.ends)
  ELSE Interval(FMax(p.a, q.a), FMin(p.b, q.b), IntersectionEnds(p, q))

Intersection(p, q) ==
  IF IsEmpty(p) \/ IsEmpty(q) THEN empty
  ELSE IF Equal(p, q) THEN Interval(p.a, p.b, p.ends)
  ELSE IF Disjoint(p, q) THEN empty
  ELSE Interval(FMax(p.a, q.a), FMin(p.b, q.b), IntersectionEnds(p, q))

\* Mutant of UnionEnds: at a tie the ends are AND-ed, as in Intersection.
UnionEndsAndTie(p, q) ==
  LET l == CASE FLt(p.a, q.a) -> BitAnd(p.ends, leftEndMask)
             [] FEq(p.a, q.a) -> BitAnd(BitAnd(p.ends, q.ends), leftEndMask)
             [] FGt(p.a, q.a) -> BitAnd(q.ends, leftEndMask)
             [] OTHER -> 0
      r == CASE FLt(p.b, q.b) -> BitAnd(q.ends, rightEndMask)
             [] FEq(p.b, q.b) -> BitAnd(BitAnd(p.ends, q.ends), rightEndMask)
             [] FGt(p.b, q.b) -> BitAnd(p.ends, rightEndMask)
             [] OTHER -> 0
  IN BitXor(BitXor(0, l), r)

\* The two switch statements of Union.
UnionEnds(p, q) ==
  LET l == CASE FLt(p.a, q.a) -> BitAnd(p.ends, leftEndMask)
             [] FEq(p.a, q.a) -> BitAnd(BitOr(p.ends, q.ends), leftEndMask)
             [] FGt(p.a, q.a) -> BitAnd(q.ends, leftEndMask)
             [] OTHER -> 0
      r == CASE FLt(p.b, q.b) -> BitAnd(q.ends, rightEndMask)
             [] FEq(p.b, q.b) -> BitAnd(BitOr(p.ends, q.ends), rightEndMask)
             [] FGt(p.b, q.b) -> BitAnd(p.ends, rightEndMask)
             [] OTHER -> 0
  IN BitXor(BitXor(0, l), r)

\* Mutant of Union: the test for disjoint operands is missing.
UnionNoDisjointTest(p, q) ==
  IF IsEmpty(p) \/ IsEmpty(q) THEN empty
  ELSE IF Equal(p, q) THEN Interval(p.a, p.b, p.ends)
  ELSE Interval(FMin(p.a, q.a), FMax(p.b, q.b), UnionEnds(p, q))

Union(p, q) ==
  IF IsEmpty(p) \/ IsEmpty(q) THEN empty
  ELSE IF Equal(p, q) THEN Interval(p.a, p.b, p.ends)
  ELSE IF Disjoint(p, q) THEN empty
  ELSE Interval(FMin(p.a, q.a), FMax(p.b, q.b), UnionEnds(p, q))

----------------------------------------------------------------------------
(* Sign classification and arithmetic *)

Neg(in) == Interval(FNeg(in.b), FNeg(in.a), flip(in.ends))

\* Mutant of isP0: the left end may be open.
isP0AnyEnd(in) == FEq(in.a, PosZero) /\ FGt(in.b, PosZero)
isP0(in) == FEq(in.a, PosZero) /\ FGt(in.b, PosZero) /\ LeftIsClosed(in)
\* Mutant of isP1: the bound alone decides, as if in.a > 0.
isP1Strict(in) == FGt(in.a, PosZero)
isP1(in) == FGt(in.b, PosZero) /\ ~Contains(in, PosZero)
isPos(in) == isP0(in) \/ isP1(in)
isN0(in) == isP0(Neg(in))
isN1(in) == isP1(Neg(in))
\* Mutant of isNeg: N0 intervals are left out.
isNegN1Only(in) == isP1(Neg(in))
isNeg(in) == isPos(Neg(in))
has0(in) == isP0(in) \/ IsMixed(in) \/ isN0(in)

\* Mutant of Add: the test for empty operands is missing.
AddNoEmptyTest(p, q) ==
  Interval(FAdd(p.a, q.a), FAdd(p.b, q.b), BitAnd(p.ends, q.ends))

Add(p, q) ==
  IF IsEmpty(p) \/ IsEmpty(q) THEN empty
  ELSE Interval(FAdd(p.a, q.a), FAdd(p.b, q.b), BitAnd(p.ends, q.ends))

\* Mutant of Sub: y is not negated.
SubNoNeg(p, q) ==
  IF IsEmpty(p) \/ IsEmpty(q) THEN empty
  ELSE Add(p, q)

Sub(p, q) ==
  IF IsEmpty(p) \/ IsEmpty(q) THEN empty
  ELSE Add(p, Neg(q))

\* Mutant of MulPosPos: only x's closed bound at 0 closes the left end.
MulPosPosLeftOnly(p, q) ==
  LET e == BitAnd(p.ends, q.ends)
      e2 == IF FEq(p.a, PosZero) /\ LeftIsClosed(p)
            THEN BitOr(e, leftEndMask) ELSE e
  IN Interval(FMul(p.a, q.a), FMul(p.b, q.b), e2)

\* case x.isPos() && y.isPos()
MulPosPos(p, q) ==
  LET e == BitAnd(p.ends, q.ends)
      e2 == IF \/ FEq(p.a, PosZero) /\ LeftIsClosed(p)
               \/ FEq(q.a, PosZero) /\ LeftIsClosed(q)
            THEN BitOr(e, leftEndMask) ELSE e
  IN Interval(FMul(p.a, q.a), FMul(p.b, q.b), e2)

\* Mutant of MulPosMixed: y's ends are kept whether or not x is closed at
\* its right bound.
MulPosMixedKeepEnds(p, q) ==
  Interval(FMul(p.b, q.a), FMul(p.b, q.b), q.ends)

\* case x.isPos() && y.IsMixed()
MulPosMixed(p, q) ==
  IF RightIsClosed(p)
  THEN Interval(FMul(p.b, q.a), FMul(p.b, q.b), q.ends)
  ELSE Interval(FMul(p.b, q.a), FMul(p.b, q.b), Open)

\* Mutant of MulMixedMixed: the left end of the first interval takes y's
\* left end, not its right end.
MulMixedMixedNoFlip(p, q) ==
  Union(
    Interval(FMul(p.a, q.b), FMul(p.b, q.b),
             BitAnd(BitAnd(p.ends, q.ends), leftEndMask)
             + BitAnd(BitAnd(p.ends, q.ends), rightEndMask)),
    Interval(FMul(p.b, q.a), FMul(p.a, q.a),
             BitAnd(BitAnd(flip(p.ends), q.ends), leftEndMask)
             + BitAnd(BitAnd(flip(p.ends), flip(q.ends)), rightEndMask)))

\* case x.IsMixed() && y.IsMixed()
MulMixedMixed(p, q) ==
  Union(
    Interval(FMul(p.a, q.b), FMul(p.b, q.b),
             BitAnd(BitAnd(p.ends, flip(q.ends)), leftEndMask)
             + BitAnd(BitAnd(p.ends, q.ends), rightEndMask)),
    Interval(FMul(p.b, q.a), FMul(p.a, q.a),
             BitAnd(BitAnd(flip(p.ends), q.ends), leftEndMask)
             + BitAnd(BitAnd(flip(p.ends), flip(q.ends)), rightEndMask)))

\* A call's outcome: the interval returned (iv), the error returned by Div
\* ("nil" when there is none; Mul returns no error), whether the call
\* reached the panic of the default case, and how many recursive calls nest
\* inside it.
Ret(in, err) == [iv |-> in, err |-> err, panic |-> FALSE, depth |-> 0]
Panicked == [iv |-> empty, err |-> "nil", panic |-> TRUE, depth |-> 0]
\* Mutant of NegRet: the error of the recursive call is dropped.
NegRetDropErr(r) ==
  [r EXCEPT !.iv = Neg(r.iv), !.err = "nil", !.depth = r.depth + 1]
\* return r.Neg(), err for the outcome r of a recursive call
NegRet(r) == [r EXCEPT !.iv = Neg(r.iv), !.depth = r.depth + 1]
\* return r for the outcome r of a recursive call
SameRet(r) == [r EXCEPT !.depth = r.depth + 1]

\* Mul's switch: the first case that holds is taken.
RECURSIVE MulCall(_, _)
MulCall(p, q) ==
  IF IsEmpty(p) \/ IsEmpty(q) THEN Ret(empty, "nil")
  ELSE IF IsZero(p) \/ IsZero(q) THEN Ret(zero, "nil")
  ELSE IF isNeg(p) THEN NegRet(MulCall(Neg(p), q))
  ELSE IF isNeg(q) THEN NegRet(MulCall(Neg(q), p))
  ELSE IF isPos(p) /\ isPos(q) THEN Ret(MulPosPos(p, q), "nil")
  ELSE IF isPos(p) /\ IsMixed(q) THEN Ret(MulPosMixed(p, q), "nil")
  ELSE IF IsMixed(p) /\ IsMixed(q) THEN Ret(MulMixedMixed(p, q), "nil")
  ELSE IF isPos(q) THEN SameRet(MulCall(q, p))
  ELSE Panicked

Mul(p, q) == MulCall(p, q).iv

\* Mutant of DivByP0: the right end is not masked out.
DivByP0KeepRight(p, q) ==
  Interval(FDiv(p.a, q.b), inf, BitAnd(p.ends, flip(q.ends)))

\* case y.isP0()
DivByP0(p, q) ==
  Interval(FDiv(p.a, q.b), inf,
           BitAnd(BitAnd(p.ends, flip(q.ends)), leftEndMask))

\* case x.isPos() (y is P1)
DivPosByP1(p, q) ==
  Interval(FDiv(p.a, q.b), FDiv(p.b, q.a), BitAnd(p.ends, flip(q.ends)))

\* case x.IsMixed() (y is P1)
DivMixedByP1(p, q) ==
  Interval(FDiv(p.a, q.a), FDiv(p.b, q.a),
           BitAnd(BitAnd(p.ends, q.ends), leftEndMask)
           + BitAnd(BitAnd(p.ends, flip(q.ends)), rightEndMask))

\* Div's switch: the first case that holds is taken.
RECURSIVE Div(_, _)
Div(p, q) ==
  IF IsEmpty(p) \/ IsEmpty(q) THEN Ret(empty, "nil")
  ELSE IF IsZero(q) THEN Ret(empty, "ErrDivByZero")
  ELSE IF IsZero(p) THEN Ret(zero, "nil")
  ELSE IF isNeg(p) THEN NegRet(Div(Neg(p), q))
  ELSE IF isNeg(q) THEN NegRet(Div(p, Neg(q)))
  ELSE IF (has0(p) /\ IsMixed(q)) \/ (IsMixed(p) /\ has0(q))
    THEN Ret(Interval(neginf, inf, Open), "nil")
  ELSE IF isP1(p) /\ IsMixed(q)
    THEN Ret(Interval(neginf, inf, Open), "ErrDisjointUnion")
  ELSE IF isP0(q) THEN Ret(DivByP0(p, q), "nil")
  ELSE IF isPos(p) THEN Ret(DivPosByP1(p, q), "nil")
  ELSE IF IsMixed(p) THEN Ret(DivMixedByP1(p, q), "nil")
  ELSE Panicked

----------------------------------------------------------------------------
(* The caller: two intervals it holds, and the calls it makes on them *)

VARIABLES
  x, y,      \* the operands
  step,      \* the number of calls made so far
  op,        \* the function called last ("none" before the first call)
  res,       \* the interval it returned
  err,       \* the error it returned ("nil" when none, or no error result)
  panicked,  \* the call ended in the panic of a default case
  depth,     \* the recursive calls nested inside the call
  signs      \* the sign predicates found true of x

vars == <<x, y, step, op, res, err, panicked, depth, signs>>

\* The endpoints drawn as inputs: -inf, +inf, both zeros, small integers.
Floats == {neginf, inf, NegZero} \cup {Flt(k) : k \in -MaxNum..MaxNum}

Reps == {Interval(v, w, e) : v \in Floats, w \in Floats, e \in Open..Closed}

\* What New returns with a nil error.
Valid == {in \in Reps : New(in.a, in.b, in.ends).err = "nil"}

\* Representations of the empty interval, such as empty() and the values
\* the operations return for an empty result: equal bounds that are not
\* both closed, or a left bound above the right one.
EmptyReps ==
  {in \in Reps : IsEmpty(in) /\ (FEq(in.a, in.b) \/ FEq(in.a, FNeg(in.b)))}

Inputs == Valid \cup EmptyReps

Start ==
  /\ step = 0
  /\ op = "none"
  /\ res = empty
  /\ err = "nil"
  /\ panicked = FALSE
  /\ depth = 0
  /\ signs = {}

Init == x \in Inputs /\ y \in Inputs /\ Start

\* The n-th call returns an interval and nothing else.
Returns(n, name, in) ==
  /\ step = n - 1
  /\ step' = n
  /\ op' = name
  /\ res' = in
  /\ err' = "nil"
  /\ UNCHANGED <<x, y, panicked, depth, signs>>

\* The n-th call is one of Mul or Div, with its whole outcome.
Outcome(n, name, r) ==
  /\ step = n - 1
  /\ step' = n
  /\ op' = name
  /\ res' = r.iv
  /\ err' = r.err
  /\ panicked' = r.panic
  /\ depth' = r.depth
  /\ UNCHANGED <<x, y, signs>>

CallNeg == Returns(1, "Neg", Neg(x))
CallAdd == Returns(1, "Add", Add(x, y))
CallSub == Returns(1, "Sub", Sub(x, y))
CallMul == Outcome(1, "Mul", MulCall(x, y))
CallDiv == Outcome(1, "Div", Div(x, y))
CallIntersection == Returns(1, "Intersection", Intersection(x, y))
CallUnion == Returns(1, "Union", Union(x, y))

\* The sign predicates of arith.go, each evaluated on x.
SignsOf(in) ==
  {n \in {"isP0", "isP1", "isPos", "isN0", "isN1", "isNeg", "has0",
          "IsMixed"} :
     \/ n = "isP0" /\ isP0(in)
     \/ n = "isP1" /\ isP1(in)
     \/ n = "isPos" /\ isPos(in)
     \/ n = "isN0" /\ isN0(in)
     \/ n = "isN1" /\ isN1(in)
     \/ n = "isNeg" /\ isNeg(in)
     \/ n = "has0" /\ has0(in)
     \/ n = "IsMixed" /\ IsMixed(in)}

CallSigns ==
  /\ step = 0
  /\ step' = 1
  /\ op' = "signs"
  /\ signs' = SignsOf(x)
  /\ UNCHANGED <<x, y, res, err, panicked, depth>>

Next ==
  \/ CallNeg
  \/ CallAdd
  \/ CallSub
  \/ CallMul
  \/ CallDiv
  \/ CallIntersection
  \/ CallUnion
  \/ CallSigns

Spec == Init /\ [][Next]_vars

----------------------------------------------------------------------------
(* New called with any two floats, NaN among them, and any Ends *)

\* The arguments (x, y float64, ends Ends), held in the variable x.
NewArgs ==
  {Interval(v, w, e) : v \in Floats \cup {NaN}, w \in Floats \cup {NaN},
                       e \in Open..Closed}

InitNew == x \in NewArgs /\ y = empty /\ Start

CallNew ==
  LET r == New(x.a, x.b, x.ends)
  IN Outcome(1, "New", [iv |-> r.iv, err |-> r.err, panic |-> FALSE,
                        depth |-> 0])

SpecNew == InitNew /\ [][CallNew]_vars

----------------------------------------------------------------------------
(* The round trip Add(Sub(Add(x, y), y), zero()): three calls in a row *)

RTFloats == {Flt(k) : k \in 0..RTMax}

RTInputs ==
  {in \in {Interval(v, w, e) : v \in RTFloats, w \in RTFloats,
                               e \in Open..Closed} :
     New(in.a, in.b, in.ends).err = "nil"}

InitRoundTrip == x \in RTInputs /\ y \in RTInputs /\ Start

RoundTripAdd == Returns(1, "Add", Add(x, y))
RoundTripSub == Returns(2, "Sub", Sub(res, y))
RoundTripAddZero == Returns(3, "Add", Add(res, zero))

NextRoundTrip == RoundTripAdd \/ RoundTripSub \/ RoundTripAddZero

SpecRoundTrip == InitRoundTrip /\ [][NextRoundTrip]_vars

----------------------------------------------------------------------------
(* Sequences of calls: every result replaces one of the two operands *)

ChainFloats == {neginf, Flt(-1), PosZero, Flt(1), inf}

\* What New returns with a nil error.
ChainInputs ==
  {in \in {Interval(v, w, e) : v \in ChainFloats, w \in ChainFloats,
                               e \in Open..Closed} :
     New(in.a, in.b, in.ends).err = "nil"}

InitChain == x \in ChainInputs /\ y \in ChainInputs /\ Start

\* One more call, with its outcome r; the caller keeps the interval
\* returned as its left or as its right operand.
Chain(name, r) ==
  /\ step < MaxChain
  /\ ~panicked
  /\ step' = step + 1
  /\ op' = name
  /\ res' = r.iv
  /\ err' = r.err
  /\ panicked' = r.panic
  /\ depth' = r.depth
  /\ \/ x' = r.iv /\ y' = y
     \/ x' = x /\ y' = r.iv
  /\ UNCHANGED signs

ChainNeg == Chain("Neg", Ret(Neg(x), "nil"))
ChainAdd == Chain("Add", Ret(Add(x, y), "nil"))
ChainSub == Chain("Sub", Ret(Sub(x, y), "nil"))
ChainMul == Chain("Mul", MulCall(x, y))
ChainDiv == Chain("Div", Div(x, y))
ChainIntersection == Chain("Intersection", Ret(Intersection(x, y), "nil"))
ChainUnion == Chain("Union", Ret(Union(x, y), "nil"))

NextChain ==
  \/ ChainNeg
  \/ ChainAdd
  \/ ChainSub
  \/ ChainMul
  \/ ChainDiv
  \/ ChainIntersection
  \/ ChainUnion

SpecChain == InitChain /\ [][NextChain]_vars

----------------------------------------------------------------------------
(* Values at which containment is tested: every input endpoint, a point   *)
(* between any two of them and a point beyond the largest and smallest.   *)

Probes == {Frac(k, 2) : k \in -(2 * MaxNum + 2)..(2 * MaxNum + 2)}

\* The probes an interval contains.
ProbesIn(in) == {v \in Probes : Contains(in, v)}

Called(name) == step = 1 /\ op = name

NonEmptyOperands == ~IsEmpty(x) /\ ~IsEmpty(y)

\* The interval (-inf, +inf), up to Equal.
IsWholeLine(in) == FEq(in.a, neginf) /\ FEq(in.b, inf) /\ in.ends = Open

\* C1: Div encloses every quotient: for non-empty x and y, y not [0,0], the
\* interval Div(x, y) returns contains a/b for every a in x and every
\* non-zero b in y.
DivEnclosesQuotients ==
  (Called("Div") /\ NonEmptyOperands /\ ~IsZero(y)) =>
    \A v \in ProbesIn(x), w \in ProbesIn(y) :
      ~FEq(w, PosZero) => Contains(res, FDiv(v, w))

\* The smaller and the larger of the four corner products of x and y.
CornerProducts ==
  {FMul(x.a, y.a), FMul(x.a, y.b), FMul(x.b, y.a), FMul(x.b, y.b)}
MinCorner == CHOOSE v \in CornerProducts : \A w \in CornerProducts : ~FLt(w, v)
MaxCorner == CHOOSE v \in CornerProducts : \A w \in CornerProducts : ~FGt(w, v)

FiniteBounds ==
  /\ ~IsInf(x.a) /\ ~IsInf(x.b)
  /\ ~IsInf(y.a) /\ ~IsInf(y.b)

\* Some product a*b with a in x and b in y equals v.
ProductAttains(v) ==
  \E a \in ProbesIn(x), b \in ProbesIn(y) : FEq(FMul(a, b), v)

\* C2: Mul returns exactly the hull of the products: for non-empty x and y
\* it contains every a*b; for finite bounds its bounds are the minimum and
\* the maximum of the four corner products; and each of its bounds is closed
\* if and only if that bound is attained as a product a*b.
MulIsHullOfProducts ==
  (Called("Mul") /\ NonEmptyOperands) =>
    /\ \A a \in ProbesIn(x), b \in ProbesIn(y) : Contains(res, FMul(a, b))
    /\ FiniteBounds => (FEq(res.a, MinCorner) /\ FEq(res.b, MaxCorner))
    /\ LeftIsClosed(res) <=> ProductAttains(res.a)
    /\ RightIsClosed(res) <=> ProductAttains(res.b)

\* A product of two mixed intervals whose hull takes one bound from each of
\* the two sub-intervals Mul unites, with one bound closed and one open.
MulIsHullOfProductsWitness ==
  /\ Called("Mul")
  /\ IsMixed(x) /\ IsMixed(y)
  /\ FiniteBounds
  /\ res.ends = LeftClosed
  /\ FEq(res.a, FMul(x.b, y.a))
  /\ FEq(res.b, FMul(x.b, y.b))

\* C3: Intersection is set intersection: for all x and y, empty or not, the
\* result contains v if and only if x and y both contain v; a non-empty
\* result is closed at a tied bound only if both inputs are, and otherwise
\* as the input supplying the binding bound is.
IntersectionIsSetIntersection ==
  Called("Intersection") =>
    /\ \A v \in Probes :
         Contains(res, v) <=> (Contains(x, v) /\ Contains(y, v))
    /\ ~IsEmpty(res) =>
         /\ LeftIsClosed(res) <=>
              CASE FEq(x.a, y.a) -> LeftIsClosed(x) /\ LeftIsClosed(y)
                [] FLt(x.a, y.a) -> LeftIsClosed(y)
                [] OTHER -> LeftIsClosed(x)
         /\ RightIsClosed(res) <=>
              CASE FEq(x.b, y.b) -> RightIsClosed(x) /\ RightIsClosed(y)
                [] FLt(x.b, y.b) -> RightIsClosed(x)
                [] OTHER -> RightIsClosed(y)

\* Two different intervals tied at the left bound, only one closed there.
IntersectionIsSetIntersectionWitness ==
  /\ Called("Intersection")
  /\ ~IsEmpty(res)
  /\ FEq(x.a, y.a)
  /\ LeftIsClosed(x) /\ ~LeftIsClosed(y)
  /\ FLt(y.b, x.b)
  /\ res.ends = RightClosed

\* x and y have a value in common.
Overlap == \E v \in Probes : Contains(x, v) /\ Contains(y, v)

\* x and y meet at a bound that at least one of them contains.
Touch ==
  \/ FEq(x.b, y.a) /\ (Contains(x, x.b) \/ Contains(y, y.a))
  \/ FEq(y.b, x.a) /\ (Contains(y, y.b) \/ Contains(x, x.a))

\* Neither interval contains an endpoint of the other.
NoEndpointContained ==
  /\ ~Contains(x, y.a) /\ ~Contains(x, y.b)
  /\ ~Contains(y, x.a) /\ ~Contains(y, x.b)

UnionIsSetUnion ==
  \A v \in Probes : Contains(res, v) <=> (Contains(x, v) \/ Contains(y, v))

\* C4 (as claimed): for non-empty x and y whose set union is connected,
\* Union(x, y) contains v if and only if x or y does; if either operand is
\* empty, or neither interval contains an endpoint of the other, Union(x, y)
\* is empty.
UnionOrEmptyAsClaimed ==
  Called("Union") =>
    /\ (NonEmptyOperands /\ (Overlap \/ Touch)) => UnionIsSetUnion
    /\ (IsEmpty(x) \/ IsEmpty(y) \/ NoEndpointContained) => IsEmpty(res)

\* C4 (amended): as claimed, except that Union(x, y) is empty when neither
\* interval contains an endpoint of the other only if x and y are not Equal
\* (two equal open intervals contain none of their endpoints and overlap).
UnionOrEmpty ==
  Called("Union") =>
    /\ (NonEmptyOperands /\ (Overlap \/ Touch)) => UnionIsSetUnion
    /\ (IsEmpty(x) \/ IsEmpty(y) \/ (NoEndpointContained /\ ~Equal(x, y)))
         => IsEmpty(res)

\* Two intervals that only touch, at a point one of them contains, united
\* into one, with a tie at neither bound.
UnionOrEmptyWitness ==
  /\ Called("Union")
  /\ NonEmptyOperands
  /\ ~Overlap /\ Touch
  /\ ~IsEmpty(res)
  /\ FLt(res.a, res.b)

\* C5: for every non-empty x that does not contain 0 and every mixed y,
\* Div(x, y) returns the open interval (-inf, +inf) and ErrDisjointUnion,
\* also when x is negative and the call recurses on x.Neg().
DivDisjointUnionSignal ==
  (Called("Div") /\ ~IsEmpty(x) /\ ~Contains(x, PosZero) /\ IsMixed(y)) =>
    /\ IsWholeLine(res)
    /\ err = "ErrDisjointUnion"

\* A negative x with an open endpoint at 0, divided through the recursion.
DivDisjointUnionSignalWitness ==
  /\ Called("Div")
  /\ isNeg(x) /\ FEq(x.b, PosZero) /\ ~IsEmpty(x)
  /\ IsMixed(y)
  /\ depth = 1
  /\ err = "ErrDisjointUnion"

DivByZeroInterval ==
  LET yIsZeroInterval ==
        FEq(y.a, PosZero) /\ FEq(y.b, PosZero) /\ y.ends = Closed
  IN Called("Div") =>
       /\ err = "ErrDivByZero" <=> (~IsEmpty(x) /\ yIsZeroInterval)
       /\ err = "ErrDivByZero" => IsEmpty(res)
       /\ (IsEmpty(x) /\ yIsZeroInterval) => (IsEmpty(res) /\ err = "nil")

\* An unbounded x divided by [0, 0].
DivByZeroIntervalWitness ==
  /\ Called("Div")
  /\ IsZero(y)
  /\ FEq(x.a, neginf) /\ FEq(x.b, inf)
  /\ err = "ErrDivByZero"

RoundTripAsClaimed ==
  (/\ step = 3
   /\ x = Interval(Flt(1), Flt(2), Closed)
   /\ y = Interval(Flt(3), Flt(4), Closed)) =>
    Equal(res, Interval(Flt(1), Flt(2), Closed))

\* C9 (amended): Add(Sub(Add([1,2], [3,4]), [3,4]), [0,0]) equals [0,3]
\* under Equal, an interval that contains [1,2].
RoundTripScenario ==
  (/\ step = 3
   /\ x = Interval(Flt(1), Flt(2), Closed)
   /\ y = Interval(Flt(3), Flt(4), Closed)) =>
    /\ Equal(res, Interval(Flt(0), Flt(3), Closed))
    /\ Contains(res, x.a) /\ Contains(res, x.b)

\* The three calls of the scenario have been made on [1,2] and [3,4].
RoundTripScenarioWitness ==
  /\ step = 3
  /\ op = "Add"
  /\ x = Interval(Flt(1), Flt(2), Closed)
  /\ y = Interval(Flt(3), Flt(4), Closed)
  /\ ~IsEmpty(res)

\* C10: for all non-empty x and y, Add(x, y) equals Add(y, x) and Mul(x, y)
\* equals Mul(y, x) under Equal.
AddMulCommute ==
  NonEmptyOperands =>
    /\ Called("Add") => Equal(res, Add(y, x))
    /\ Called("Mul") => Equal(res, Mul(y, x))

\* A product of two negative intervals with different ends, which Mul
\* reduces by negating x, then y, in either order of the operands.
AddMulCommuteWitness ==
  /\ Called("Mul")
  /\ isNeg(x) /\ isNeg(y) /\ NonEmptyOperands
  /\ x.ends # y.ends
  /\ depth = 2
  /\ res.ends = LeftClosed

\* C11: for every x, x.Neg() has the bounds (-x.b, -x.a), is closed on the
\* left exactly when x is closed on the right and the other way round, and
\* x.Neg().Neg() equals x under Equal.
NegIsInvolution ==
  Called("Neg") =>
    /\ res.a = FNeg(x.b) /\ res.b = FNeg(x.a)
    /\ LeftIsClosed(res) <=> RightIsClosed(x)
    /\ RightIsClosed(res) <=> LeftIsClosed(x)
    /\ Equal(Neg(res), x)

\* A half-open unbounded interval negated.
NegIsInvolutionWitness ==
  /\ Called("Neg")
  /\ x.ends = RightClosed /\ FEq(x.a, neginf) /\ ~IsEmpty(x)
  /\ res.ends = LeftClosed /\ FEq(res.b, inf)

Arithmetic == {"Add", "Sub", "Mul", "Div"}

\* C12: for every x and every representation e of the empty interval, Add,
\* Sub, Mul and Div of (x, e) and of (e, x) return an empty interval, and
\* Div returns a nil error (also for Div(e, [0,0])).
EmptyIsAbsorbing ==
  (step = 1 /\ op \in Arithmetic /\ (IsEmpty(x) \/ IsEmpty(y))) =>
    /\ IsEmpty(res)
    /\ err = "nil"

\* An empty interval with a > b divided by [0, 0].
EmptyIsAbsorbingWitness ==
  /\ Called("Div")
  /\ FGt(x.a, x.b)
  /\ FEq(y.a, PosZero) /\ FEq(y.b, PosZero) /\ y.ends = Closed
  /\ err = "nil"

\* The interval [0, 0].
IsZeroInterval(in) ==
  FEq(in.a, PosZero) /\ FEq(in.b, PosZero) /\ in.ends = Closed

\* C13: for every non-empty x, Mul(x, [0,0]) and Mul([0,0], x) equal [0,0];
\* for every non-empty y other than [0,0], Div([0,0], y) returns [0,0] and a
\* nil error.
ZeroIdentities ==
  /\ (Called("Mul") /\ NonEmptyOperands
        /\ (IsZeroInterval(x) \/ IsZeroInterval(y))) => IsZeroInterval(res)
  /\ (Called("Div") /\ IsZeroInterval(x) /\ ~IsEmpty(y)
        /\ ~IsZeroInterval(y)) => (IsZeroInterval(res) /\ err = "nil")

\* [0, 0] divided by an unbounded interval that contains 0.
ZeroIdentitiesWitness ==
  /\ Called("Div")
  /\ IsZeroInterval(x)
  /\ FEq(y.a, neginf) /\ FGt(y.b, PosZero)
  /\ IsZeroInterval(res)

\* C14: with non-empty operands Add, Sub and Mul return a non-empty
\* interval, and Div returns a non-empty interval whenever y is not [0, 0].
NonEmptyInNonEmptyOut ==
  (step = 1 /\ op \in Arithmetic /\ NonEmptyOperands
     /\ ~(op = "Div" /\ IsZeroInterval(y))) => ~IsEmpty(res)

\* C15: New(x, y, ends) returns ErrNaN if x or y is NaN; otherwise ErrEmpty
\* if x > y, or x == y with ends other than Closed; otherwise ErrClosedInf
\* if the left bound is -inf and closed or the right bound is +inf and
\* closed. With an error the interval returned is empty; without one it
\* has exactly the bounds and ends given.
NewValidatesInOrder ==
  Called("New") =>
    LET v == x.a
        w == x.b
        isNaN == (v.n = 0 /\ v.d = 0) \/ (w.n = 0 /\ w.d = 0)
        isEmpty == FGt(v, w) \/ (FEq(v, w) /\ x.ends # Closed)
        closedInf ==
          \/ v = neginf /\ x.ends \in {LeftClosed, Closed}
          \/ w = inf /\ x.ends \in {RightClosed, Closed}
    IN /\ err = IF isNaN THEN "ErrNaN"
                ELSE IF isEmpty THEN "ErrEmpty"
                ELSE IF closedInf THEN "ErrClosedInf"
                ELSE "nil"
       /\ err # "nil" => IsEmpty(res)
       /\ err = "nil" => res = x

\* Both bounds +inf and the right end closed: empty and closed at an
\* infinite bound at once, reported as ErrEmpty.
NewValidatesInOrderWitness ==
  /\ Called("New")
  /\ x.a = inf /\ x.b = inf /\ x.ends = RightClosed
  /\ err = "ErrEmpty"

SignClasses == {"isP0", "isP1", "isN0", "isN1", "IsMixed"}

\* C16: of every non-empty interval other than [0, 0] exactly one of isP0,
\* isP1, isN0, isN1 and IsMixed holds; with a zero left bound it is isP0
\* if that bound is closed and isP1 if it is open, and likewise isN0 and
\* isN1 with a zero right bound.
SignsPartition ==
  (Called("signs") /\ ~IsEmpty(x) /\ ~IsZeroInterval(x)) =>
    /\ Cardinality(signs \cap SignClasses) = 1
    /\ (FEq(x.a, PosZero) /\ x.ends \in {LeftClosed, Closed})
         => "isP0" \in signs
    /\ (FEq(x.a, PosZero) /\ x.ends \in {Open, RightClosed})
         => "isP1" \in signs
    /\ (FEq(x.b, PosZero) /\ x.ends \in {RightClosed, Closed})
         => "isN0" \in signs
    /\ (FEq(x.b, PosZero) /\ x.ends \in {Open, LeftClosed})
         => "isN1" \in signs

\* The interval (0, 1), open at 0, is P1 and nothing else.
SignsPartitionWitness ==
  /\ Called("signs")
  /\ x = Interval(PosZero, Flt(1), Open)
  /\ signs \cap SignClasses = {"isP1"}

\* C17: for every pair of intervals Mul and Div return: the panic of the
\* default case is not reached, and at most two recursive calls nest inside
\* the call.
MulDivTotal ==
  (step = 1 /\ op \in {"Mul", "Div"}) => (~panicked /\ depth <= 2)

\* Two negative operands: Div negates x, then y, then divides.
MulDivTotalWitness ==
  /\ Called("Div")
  /\ FLt(x.b, PosZero) /\ FLt(y.b, PosZero) /\ NonEmptyOperands
  /\ depth = 2 /\ ~panicked /\ ~IsEmpty(res)

\* C18: Mul(x.Neg(), y) equals Mul(x, y).Neg() under Equal for all x and
\* y, mixed, zero and empty ones included.
MulNegCommute ==
  Called("Mul") => Equal(Mul(Neg(x), y), Neg(res))

\* Two mixed intervals with different ends.
MulNegCommuteWitness ==
  /\ Called("Mul")
  /\ FLt(x.a, PosZero) /\ FGt(x.b, PosZero)
  /\ FLt(y.a, PosZero) /\ FGt(y.b, PosZero)
  /\ x.ends = LeftClosed /\ y.ends = Closed
  /\ ~IsEmpty(res)

\* The value {0, 0, Open}.
IsCanonicalEmpty(in) ==
  FEq(in.a, PosZero) /\ FEq(in.b, PosZero) /\ in.ends = Open

\* C19 as stated: whenever Intersection(x, y) is empty, the interval
\* returned is exactly {0, 0, Open}.
IntersectionEmptyAsClaimed ==
  (Called("Intersection") /\ IsEmpty(res)) => IsCanonicalEmpty(res)

\* C19: whenever Intersection(x, y) is empty, the interval returned is
\* {0, 0, Open} if an operand is empty or neither operand contains a bound
\* of the other; otherwise the operands touch at one point p that one of
\* them excludes, and the interval returned is {p, p, ends} with ends other
\* than Closed.
IntersectionEmptyValue ==
  (Called("Intersection") /\ IsEmpty(res)) =>
    IF IsEmpty(x) \/ IsEmpty(y) \/ NoEndpointContained
    THEN IsCanonicalEmpty(res)
    ELSE /\ res.ends # Closed
         /\ FEq(res.a, res.b)
         /\ \/ FEq(x.b, y.a) /\ FEq(res.a, x.b)
            \/ FEq(y.b, x.a) /\ FEq(res.a, y.b)

\* (-1, 2) and [2, +inf) touch at 2: the interval returned is {2, 2,
\* LeftClosed}.
IntersectionEmptyValueWitness ==
  /\ Called("Intersection")
  /\ x = Interval(Flt(-1), Flt(2), Open)
  /\ y = Interval(Flt(2), inf, LeftClosed)
  /\ res = Interval(Flt(2), Flt(2), LeftClosed)

\* The conditions of New: ordered bounds, no closed infinite bound.
MeetsNewConditions(in) ==
  /\ FLt(in.a, in.b) \/ FEq(in.a, in.b)
  /\ ~(in.a = neginf /\ in.ends \in {LeftClosed, Closed})
  /\ ~(in.b = inf /\ in.ends \in {RightClosed, Closed})

\* C20: starting from intervals returned by New with a nil error, every
\* value produced by a sequence of Neg, Add, Sub, Mul, Div, Intersection
\* and Union applied to earlier results is empty or meets New's conditions:
\* left bound <= right bound, not left-closed at -inf, not right-closed at
\* +inf.
ValidityPreserved ==
  step >= 1 => (IsEmpty(res) \/ MeetsNewConditions(res))

\* [1, 1] divided by the sum [1, 1] + [1, 1]: the second call takes the
\* result of the first as its divisor.
ValidityPreservedWitness ==
  /\ step = 2
  /\ op = "Div"
  /\ x = Interval(Flt(1), Flt(1), Closed)
  /\ res = Interval(Frac(1, 2), Frac(1, 2), Closed)

====
